---- MODULE Spec2Model ----
(***************************************************************************)
(* Model of app.py, a Streamlit script with three sections:                *)
(*   1. the distance calculator      d = n - k + 1                         *)
(*   2. the polynomial "codeword"    m(x) evaluated at 1 .. len(message)+2 *)
(*   3. the toy quantum circuit      H on every qubit, a CX chain, measure *)
(* Streamlit executes the whole script from top to bottom on every widget  *)
(* interaction, so every action below is "one widget changes, then the     *)
(* script runs once".  Text is a sequence of one-character strings, a      *)
(* measured bitstring is a sequence of "0"/"1".                            *)
(***************************************************************************)
EXTENDS Integers, Sequences, FiniteSets, TLC

VARIABLES
    n,            \* value of the n number_input             (line 42)
    k,            \* value of the k number_input, NoK when the widget raised
    msg,          \* value of the text_input                  (line 66)
    num_qubits,   \* value of the slider                      (line 110)
    stopped,      \* the run ended on an uncaught exception at line 44
    d_out,        \* <<d>> when st.success showed d (line 47), else <<>>
    poly_status,  \* "ok" | "error" | "none": which branch of try/except displayed
    message,      \* the parsed coefficient list             (line 72)
    poly_str,     \* the text shown by st.code                (line 77)
    eval_points,  \* the list shown by st.write               (line 86)
    codeword,     \* the list shown by st.success             (line 87)
    qc,           \* the instructions of the circuit          (lines 112-122)
    shots_run,    \* the shots the backend executed           (line 128)
    counts        \* result.get_counts(): bitstring -> count  (line 130)

vars == <<n, k, msg, num_qubits, stopped, d_out, poly_status, message,
          poly_str, eval_points, codeword, qc, shots_run, counts>>

(***************************** bounds ***************************************)
MaxN == 8        \* largest n the user enters (the widget has no max_value)
MaxMsgLen == 3   \* longest text enumerated exhaustively over Alphabet
MaxSkew == 1     \* largest sampling deviation, in shots, from the expectation

(************************ program constants *********************************)
MinN == 2
DefaultN == 7
MinK == 1
DefaultK == 3
MinQubits == 2
MaxQubits == 5
DefaultQubits == 3
ExtraPoints == 3     \* range(1, len(message) + 3)
NoK == 0             \* k has no value: its widget raised

DefaultMsg == <<"3", ",", "5", ",", "2">>

(******************************* text ***************************************)
Whitespace == {" ", "\t", "\n"}
DigitChars == {"0", "1", "2", "3", "4", "5", "6", "7", "8", "9"}

DigitVal(c) ==
    CASE c = "0" -> 0 [] c = "1" -> 1 [] c = "2" -> 2 [] c = "3" -> 3
      [] c = "4" -> 4 [] c = "5" -> 5 [] c = "6" -> 6 [] c = "7" -> 7
      [] c = "8" -> 8 [] c = "9" -> 9

DigitChar(v) ==
    CASE v = 0 -> "0" [] v = 1 -> "1" [] v = 2 -> "2" [] v = 3 -> "3"
      [] v = 4 -> "4" [] v = 5 -> "5" [] v = 6 -> "6" [] v = 7 -> "7"
      [] v = 8 -> "8" [] v = 9 -> "9"

\* variant: split(",", 1), which cuts at the first comma only
SplitOnce(s) ==
    IF \A i \in 1..Len(s) : s[i] # ","
    THEN <<s>>
    ELSE LET p == CHOOSE i \in 1..Len(s) :
                      s[i] = "," /\ \A j \in 1..(i-1) : s[j] # ","
         IN <<SubSeq(s, 1, p - 1), SubSeq(s, p + 1, Len(s))>>

\* str.split(","): the pieces between commas; "" splits to [""].
RECURSIVE Split(_)
Split(s) ==
    IF \A i \in 1..Len(s) : s[i] # ","
    THEN <<s>>
    ELSE LET p == CHOOSE i \in 1..Len(s) :
                      s[i] = "," /\ \A j \in 1..(i-1) : s[j] # ","
         IN <<SubSeq(s, 1, p - 1)>> \o Split(SubSeq(s, p + 1, Len(s)))

\* str.strip(): leading and trailing whitespace removed.
RECURSIVE LStrip(_)
LStrip(s) ==
    IF s # <<>> /\ Head(s) \in Whitespace THEN LStrip(Tail(s)) ELSE s

RECURSIVE RStrip(_)
RStrip(s) ==
    IF s # <<>> /\ s[Len(s)] \in Whitespace
    THEN RStrip(SubSeq(s, 1, Len(s) - 1)) ELSE s

Strip(s) == RStrip(LStrip(s))

\* int(str): scans an optional sign, then decimal digits in which a single
\* underscore may separate two digits.  IntScan returns <<ok, value>>.
RECURSIVE ScanDigits(_, _, _)
ScanDigits(s, acc, prevDigit) ==
    IF s = <<>> THEN <<prevDigit, acc>>
    ELSE IF Head(s) \in DigitChars
         THEN ScanDigits(Tail(s), acc * 10 + DigitVal(Head(s)), TRUE)
    ELSE IF Head(s) = "_" /\ prevDigit
         THEN ScanDigits(Tail(s), acc, FALSE)
    ELSE <<FALSE, 0>>

IntScan(tok) ==
    LET s == Strip(tok)
    IN  IF s = <<>> THEN <<FALSE, 0>>
        ELSE IF Head(s) = "-"
             THEN LET r == ScanDigits(Tail(s), 0, FALSE) IN <<r[1], 0 - r[2]>>
        ELSE IF Head(s) = "+" THEN ScanDigits(Tail(s), 0, FALSE)
        ELSE ScanDigits(s, 0, FALSE)

\* variant: a comprehension that filters the bad tokens out instead of raising
ParseMessageSkipsBad(text) ==
    LET toks == SelectSeq(Split(text), LAMBDA t : IntScan(Strip(t))[1])
    IN  [raised |-> FALSE,
         value |-> [i \in 1..Len(toks) |-> IntScan(Strip(toks[i]))[2]]]

\* [int(x.strip()) for x in msg.split(",")]: raises at the first bad token.
\* ParseMessage returns [raised, value].
ParseMessage(text) ==
    LET toks == Split(text)
        scans == [i \in 1..Len(toks) |-> IntScan(Strip(toks[i]))]
    IN  IF \E i \in 1..Len(toks) : ~scans[i][1]
        THEN [raised |-> TRUE, value |-> <<>>]
        ELSE [raised |-> FALSE, value |-> [i \in 1..Len(toks) |-> scans[i][2]]]

\* str(int), as the f-string formats a coefficient or an exponent.
RECURSIVE NatToStr(_)
NatToStr(v) ==
    IF v < 10 THEN <<DigitChar(v)>>
    ELSE NatToStr(v \div 10) \o <<DigitChar(v % 10)>>

IntToStr(v) == IF v < 0 THEN <<"-">> \o NatToStr(0 - v) ELSE NatToStr(v)

\* f"{message[i]}x^{i}" for Python index i = idx - 1
Term(coefs, idx) == IntToStr(coefs[idx]) \o <<"x", "^">> \o IntToStr(idx - 1)

\* " + ".join([...]) prefixed by "m(x) = "
RECURSIVE JoinTerms(_, _)
JoinTerms(coefs, idx) ==
    IF idx > Len(coefs) THEN <<>>
    ELSE (IF idx = 1 THEN <<>> ELSE <<" ", "+", " ">>)
         \o Term(coefs, idx) \o JoinTerms(coefs, idx + 1)

PolyStr(coefs) == <<"m", "(", "x", ")", " ", "=", " ">> \o JoinTerms(coefs, 1)

(************************* section 2: encoding ******************************)
RECURSIVE Pow(_, _)
Pow(x, e) == IF e = 0 THEN 1 ELSE x * Pow(x, e - 1)

\* variant: range(1, len(message) + 2), one evaluation point fewer
EvalPointsShort(coefs) == [i \in 1..(Len(coefs) + ExtraPoints - 2) |-> i]

\* list(range(1, len(message) + 3))
EvalPoints(coefs) == [i \in 1..(Len(coefs) + ExtraPoints - 1) |-> i]

\* variant: message[i] * (x * i), a product for the power
TermValTimes(coefs, x, i) == coefs[i + 1] * (x * i)

\* one term of the generator expression: message[i] * (x ** i)
TermVal(coefs, x, i) == coefs[i + 1] * Pow(x, i)

\* sum(message[i] * (x ** i) for i in range(len(message)))
RECURSIVE SumTerms(_, _, _)
SumTerms(coefs, x, i) ==
    IF i >= Len(coefs) THEN 0
    ELSE TermVal(coefs, x, i) + SumTerms(coefs, x, i + 1)

\* the for loop over eval_points appending val to codeword
RECURSIVE EncodeLoop(_, _, _, _)
EncodeLoop(coefs, points, j, acc) ==
    IF j > Len(points) THEN acc
    ELSE EncodeLoop(coefs, points, j + 1,
                    Append(acc, SumTerms(coefs, points[j], 0)))

Encode(coefs) == EncodeLoop(coefs, EvalPoints(coefs), 1, <<>>)

\* variant: the handler raises again, nothing is caught and the script stops
ExceptHandlerReraises == [status |-> "none", continues |-> FALSE]

\* variant: the handler shows the error and calls st.stop()
ExceptHandlerStops == [status |-> "error", continues |-> FALSE]

\* the except clause: st.error(...) and the script goes on after the try
ExceptHandler == [status |-> "error", continues |-> TRUE]

\* the try/except block, lines 71-90
Section2(text) ==
    LET p == ParseMessage(text)
    IN  IF p.raised
        THEN [status |-> ExceptHandler.status, continues |-> ExceptHandler.continues,
              message |-> <<>>, poly_str |-> <<>>,
              eval_points |-> <<>>, codeword |-> <<>>]
        ELSE [status |-> "ok", continues |-> TRUE,
              message |-> p.value, poly_str |-> PolyStr(p.value),
              eval_points |-> EvalPoints(p.value), codeword |-> Encode(p.value)]

(************************* section 1: distance ******************************)
\* variant: a k input without max_value, which never raises
NumberInputKUnchecked(nv, current) == [raised |-> FALSE, value |-> current]

\* st.number_input("Enter k ...", min_value=1, max_value=n-1, value=3):
\* the widget raises when its default value lies above max_value, otherwise
\* it returns its current value, which the control keeps in MinK..n-1.
NumberInputK(nv, current) ==
    IF DefaultK > nv - 1
    THEN [raised |-> TRUE, value |-> NoK]
    ELSE [raised |-> FALSE, value |-> current]

\* d = n - k + 1
Distance(nv, kv) == nv - kv + 1

(************************* section 3: circuit *******************************)
Instr(name, qubits, clbits) ==
    [name |-> name, qubits |-> qubits, clbits |-> clbits]

\* QuantumCircuit(num_qubits, num_qubits)
QuantumCircuit(nq, nc) == [num_qubits |-> nq, num_clbits |-> nc, data |-> <<>>]

AppendInstr(circ, ins) == [circ EXCEPT !.data = Append(@, ins)]

\* variant: qc.h(0) alone, no loop over the qubits
HLoopFirstOnly(circ, i, nq) == AppendInstr(circ, Instr("h", <<0>>, <<>>))

\* for i in range(num_qubits): qc.h(i)
RECURSIVE HLoop(_, _, _)
HLoop(circ, i, nq) ==
    IF i >= nq THEN circ
    ELSE HLoop(AppendInstr(circ, Instr("h", <<i>>, <<>>)), i + 1, nq)

\* variant: qc.cx(i + 1, i), control and target swapped
RECURSIVE CxLoopReversed(_, _, _)
CxLoopReversed(circ, i, nq) ==
    IF i >= nq - 1 THEN circ
    ELSE CxLoopReversed(AppendInstr(circ, Instr("cx", <<i + 1, i>>, <<>>)),
                        i + 1, nq)

\* for i in range(num_qubits - 1): qc.cx(i, i + 1)
RECURSIVE CxLoop(_, _, _)
CxLoop(circ, i, nq) ==
    IF i >= nq - 1 THEN circ
    ELSE CxLoop(AppendInstr(circ, Instr("cx", <<i, i + 1>>, <<>>)), i + 1, nq)

\* qc.measure(range(num_qubits), range(num_qubits)): one measure instruction
\* per (qubit, clbit) pair of the two ranges, in order.
RECURSIVE MeasureAll(_, _, _)
MeasureAll(circ, j, nq) ==
    IF j >= nq THEN circ
    ELSE MeasureAll(AppendInstr(circ, Instr("measure", <<j>>, <<j>>)), j + 1, nq)

\* lines 112-122
BuildCircuit(nq) ==
    MeasureAll(CxLoop(HLoop(QuantumCircuit(nq, nq), 0, nq), 0, nq), 0, nq)

(************************* section 3: simulation ****************************)
\* The state vector over the basis states 0 .. 2^nq - 1 (bit q of the index is
\* qubit q), kept unnormalised in integers: every H leaves out its 1/sqrt(2).
Bit(b, q) == (b \div Pow(2, q)) % 2
Flip(b, q) == IF Bit(b, q) = 0 THEN b + Pow(2, q) ELSE b - Pow(2, q)

ApplyGate(amp, ins) ==
    CASE ins.name = "h" ->
           LET q == ins.qubits[1]
           IN [b \in DOMAIN amp |->
                 IF Bit(b, q) = 0 THEN amp[b] + amp[Flip(b, q)]
                                  ELSE amp[Flip(b, q)] - amp[b]]
      [] ins.name = "cx" ->
           LET c == ins.qubits[1]
               t == ins.qubits[2]
           IN [b \in DOMAIN amp |->
                 amp[IF Bit(b, c) = 1 THEN Flip(b, t) ELSE b]]
      [] OTHER -> amp

RECURSIVE ApplyAll(_, _, _)
ApplyAll(amp, data, i) ==
    IF i > Len(data) THEN amp
    ELSE ApplyAll(ApplyGate(amp, data[i]), data, i + 1)

Statevector(circ) ==
    ApplyAll([b \in 0..(Pow(2, circ.num_qubits) - 1) |-> IF b = 0 THEN 1 ELSE 0],
             circ.data, 1)

\* The bitstring get_counts reports for basis state b: one character per
\* classical bit, the highest classical bit first; a classical bit that no
\* measure instruction writes stays "0".
KeyOf(circ, b) ==
    [p \in 1..circ.num_clbits |->
        LET c == circ.num_clbits - p
            ms == {i \in 1..Len(circ.data) :
                     circ.data[i].name = "measure" /\ circ.data[i].clbits = <<c>>}
        IN  IF ms = {} THEN "0"
            ELSE LET last == CHOOSE i \in ms : \A j \in ms : j <= i
                 IN IF Bit(b, circ.data[last].qubits[1]) = 1 THEN "1" ELSE "0"]

RECURSIVE SumOver(_, _)
SumOver(f, S) ==
    IF S = {} THEN 0
    ELSE LET e == CHOOSE e \in S : TRUE IN f[e] + SumOver(f, S \ {e})

\* unnormalised probability of each bitstring that can be observed, from
\* the final amplitudes
WeightsOf(circ, amp) ==
    LET sq == [b \in DOMAIN amp |-> amp[b] * amp[b]]
        live == {b \in DOMAIN amp : amp[b] # 0}
        keyOf == [b \in live |-> KeyOf(circ, b)]
    IN  [key \in {keyOf[b] : b \in live} |->
            SumOver(sq, {b \in live : keyOf[b] = key})]

OutcomeWeights(circ) == WeightsOf(circ, Statevector(circ))

\* the first and the last observable bitstring, in basis-state order
EndKeys(circ, amp) ==
    LET live == {b \in DOMAIN amp : amp[b] # 0}
    IN  <<KeyOf(circ, CHOOSE b \in live : \A c \in live : b <= c),
          KeyOf(circ, CHOOSE b \in live : \A c \in live : c <= b)>>

\* each bitstring's expected share of the shots, rounded down
Shares(w, shots, total) == [key \in DOMAIN w |-> (shots * w[key]) \div total]

Histogram(share, shots, ends, allotted, skew) ==
    LET moved == IF ends[1] # ends[2] /\ share[ends[2]] > skew THEN skew ELSE 0
    IN  [key \in DOMAIN share |->
            share[key]
            + (IF key = ends[1] THEN (shots - allotted) + moved ELSE 0)
            - (IF key = ends[2] THEN moved ELSE 0)]

\* backend.run(qc, shots=...).result().get_counts(): the unseeded sampler
\* returns a histogram of `shots` outcomes drawn from the circuit's
\* distribution, given here as the weights w.  The draw is a choice: each
\* bitstring gets its expected share (a rounding remainder goes to the first
\* one), and `skew` shots move from the last bitstring to the first.
SampleCounts(circ, w, shots, skew) ==
    LET share == Shares(w, shots, SumOver(w, DOMAIN w))
    IN  Histogram(share, shots, EndKeys(circ, Statevector(circ)),
                  SumOver(share, DOMAIN share), skew)

BackendRun(circ, shots, skew) ==
    SampleCounts(circ, OutcomeWeights(circ), shots, skew)

\* variant: shots=1000
ShotsThousand == 10 * 100

\* shots=1024
Shots == 1024

(***************************** the script ***********************************)
NoCircuit == QuantumCircuit(0, 0)

\* Section 3 depends on the slider and the draw alone; it is evaluated once
\* for each of their values.
Section3 ==
    [q \in MinQubits..MaxQubits |->
        [skew \in 0..MaxSkew |->
            [qc |-> BuildCircuit(q),
             shots_run |-> Shots,
             counts |-> BackendRun(BuildCircuit(q), Shots, skew)]]]

\* what the page shows when the script stops at line 44
Blank ==
    [stopped |-> TRUE, d_out |-> <<>>, poly_status |-> "none",
     message |-> <<>>, poly_str |-> <<>>, eval_points |-> <<>>,
     codeword |-> <<>>, qc |-> NoCircuit, shots_run |-> 0, counts |-> <<>>]

Page(kin, dist, s2, s3) ==
    IF kin.raised THEN Blank
    ELSE [stopped |-> ~s2.continues,
          d_out |-> <<dist>>,
          poly_status |-> s2.status,
          message |-> s2.message,
          poly_str |-> s2.poly_str,
          eval_points |-> s2.eval_points,
          codeword |-> s2.codeword,
          qc |-> IF s2.continues THEN s3.qc ELSE NoCircuit,
          shots_run |-> IF s2.continues THEN s3.shots_run ELSE 0,
          counts |-> IF s2.continues THEN s3.counts ELSE <<>>]

\* One execution of the script, top to bottom, with the widgets holding
\* nv, kv, text, nq and the sampler drawing `skew`.
RunScript(nv, kv, text, nq, skew) ==
    Page(NumberInputK(nv, kv), Distance(nv, NumberInputK(nv, kv).value),
         Section2(text), Section3[nq][skew])

Shown(nv, kv, text, nq, r) ==
    /\ n = nv /\ k = NumberInputK(nv, kv).value /\ msg = text /\ num_qubits = nq
    /\ stopped = r.stopped /\ d_out = r.d_out /\ poly_status = r.poly_status
    /\ message = r.message /\ poly_str = r.poly_str
    /\ eval_points = r.eval_points /\ codeword = r.codeword
    /\ qc = r.qc /\ shots_run = r.shots_run /\ counts = r.counts

Rerun(nv, kv, text, nq) ==
    \E skew \in 0..MaxSkew :
        \E r \in {RunScript(nv, kv, text, nq, skew)} :
            /\ n' = nv /\ k' = NumberInputK(nv, kv).value
            /\ msg' = text /\ num_qubits' = nq
            /\ stopped' = r.stopped /\ d_out' = r.d_out
            /\ poly_status' = r.poly_status /\ message' = r.message
            /\ poly_str' = r.poly_str /\ eval_points' = r.eval_points
            /\ codeword' = r.codeword /\ qc' = r.qc
            /\ shots_run' = r.shots_run /\ counts' = r.counts

\* the first execution, every widget at its default value
Init ==
    \E skew \in 0..MaxSkew :
        Shown(DefaultN, DefaultK, DefaultMsg, DefaultQubits,
              RunScript(DefaultN, DefaultK, DefaultMsg, DefaultQubits, skew))

\* The user edits n.  max_value=n-1 is part of the k widget's identity, so the
\* k widget of the new run is a new widget holding its default value.
ChangeN(v) ==
    /\ v # n
    /\ Rerun(v, DefaultK, msg, num_qubits)

\* The user edits k; the control only offers MinK..n-1.  Like the two widgets
\* below it is on the page only when the last run got past line 44.
ChangeK(v) ==
    /\ ~stopped
    /\ v \in MinK..(n - 1)
    /\ v # k
    /\ Rerun(n, v, msg, num_qubits)

ChangeMsg(t) ==
    /\ ~stopped
    /\ t # msg
    /\ Rerun(n, k, t, num_qubits)

ChangeQubits(q) ==
    /\ ~stopped
    /\ q # num_qubits
    /\ Rerun(n, k, msg, q)

(****************************** inputs **************************************)
Alphabet == {"2", "-", ",", " "}

ShortTexts == UNION {[1..m -> Alphabet] : m \in 0..MaxMsgLen}

SampleTexts ==
    { DefaultMsg,
      <<>>,
      <<"a", ",", "b", ",", "c">>,
      <<"3", ",", ",", "2">>,
      <<" ", "4", " ", ",", "-", "1", ",", "0">>,
      <<"1", "_", "0", ",", "+", "2", ",", "0", ",", "7">>,
      <<"1", "2">>,
      <<"5", ",", "x">> }

Next ==
    \/ \E v \in MinN..MaxN : ChangeN(v)
    \/ \E v \in MinK..MaxN : ChangeK(v)
    \/ \E t \in SampleTexts : ChangeMsg(t)
    \/ \E q \in MinQubits..MaxQubits : ChangeQubits(q)

Spec == Init /\ [][Next]_vars

\* the message field alone, over every short text
NextPoly == \E t \in ShortTexts \cup SampleTexts : ChangeMsg(t)

SpecPoly == Init /\ [][NextPoly]_vars

(****************************** claims **************************************)
\* m(x) by Horner's rule, from coefficient idx upwards
RECURSIVE Horner(_, _, _)
Horner(coefs, x, idx) ==
    IF idx > Len(coefs) THEN 0
    ELSE coefs[idx] + x * Horner(coefs, x, idx + 1)

\* C1: whenever a codeword is displayed, its entry for the evaluation point x,
\* for every x in 1 .. m+3 (m+1 coefficients), is the exact integer value
\* a0 + a1*x + ... + am*x^m, and the entries stand in ascending order of x.
C1_CodewordIsPolynomialValue ==
    poly_status = "ok" =>
        /\ message # <<>>
        /\ DOMAIN codeword = 1..(Len(message) + 2)
        /\ \A x \in 1..(Len(message) + 2) : codeword[x] = Horner(message, x, 1)

C1_Witness ==
    /\ poly_status = "ok"
    /\ Len(message) >= 3
    /\ \E i \in 1..Len(message) : message[i] < 0
    /\ codeword[Len(codeword)] # codeword[1]

\* the pieces of a text between its commas, by their end positions
ClaimTokens(text) ==
    LET cuts == {0, Len(text) + 1} \cup {i \in 1..Len(text) : text[i] = ","}
    IN  {SubSeq(text, a + 1, b - 1) :
            <<a, b>> \in {c \in cuts \X cuts :
                            c[1] < c[2] /\ \A e \in cuts : ~(c[1] < e /\ e < c[2])}}

\* a token that, whitespace trimmed, is an integer literal: an optional sign,
\* then digits, where single underscores may stand between digits
ClaimIsInteger(tok) ==
    \E a \in 1..Len(tok) : \E b \in a..Len(tok) :
        /\ \A i \in 1..Len(tok) : (i < a \/ i > b) => tok[i] \in Whitespace
        /\ LET f == IF tok[a] \in {"+", "-"} THEN a + 1 ELSE a
           IN  /\ f <= b
               /\ tok[f] \in DigitChars
               /\ tok[b] \in DigitChars
               /\ \A i \in f..b : tok[i] \in DigitChars \cup {"_"}
               /\ \A i \in f..(b - 1) : ~(tok[i] = "_" /\ tok[i + 1] = "_")

\* C2: when some comma-separated token of the message text is not a valid
\* integer (an empty token and the empty text included), the polynomial
\* section shows the error alone: no coefficients, no polynomial rendering, no
\* evaluation points, no codeword.
C2_BadTokenShowsOnlyError ==
    (d_out # <<>> /\ \E tok \in ClaimTokens(msg) : ~ClaimIsInteger(tok)) =>
        /\ poly_status = "error"
        /\ message = <<>>
        /\ poly_str = <<>>
        /\ eval_points = <<>>
        /\ codeword = <<>>

C2_Witness ==
    /\ poly_status = "error"
    /\ \E tok \in ClaimTokens(msg) : ClaimIsInteger(tok)
    /\ \E tok \in ClaimTokens(msg) : Strip(tok) = <<>>
    /\ Len(msg) > 1

C4_CountsSumToShots ==
    ~stopped =>
        /\ num_qubits \in 2..5
        /\ shots_run = 1024
        /\ DOMAIN counts # {}
        /\ SumOver(counts, DOMAIN counts) = 1024
        /\ \A key \in DOMAIN counts :
              /\ counts[key] > 0
              /\ Len(key) = num_qubits
              /\ \A i \in 1..Len(key) : key[i] \in {"0", "1"}

C4_Witness ==
    /\ ~stopped
    /\ num_qubits = 5
    /\ \E a \in DOMAIN counts : \E b \in DOMAIN counts : counts[a] # counts[b]

\* C5: whenever the circuit is built it is, in this order, H on qubits
\* 0 .. num_qubits-1, CX(i, i+1) for i = 0 .. num_qubits-2, and the measurement
\* of qubit j into classical bit j for j = 0 .. num_qubits-1; no CX stands
\* before an H and nothing but measurement follows a measurement.
C5_CircuitShape ==
    ~stopped =>
        LET nq == num_qubits
            ins == qc.data
        IN  /\ qc.num_qubits = nq /\ qc.num_clbits = nq
            /\ Len(ins) = 3 * nq - 1
            /\ \A i \in 1..nq :
                  ins[i] = [name |-> "h", qubits |-> <<i - 1>>, clbits |-> <<>>]
            /\ \A i \in 1..(nq - 1) :
                  ins[nq + i] =
                      [name |-> "cx", qubits |-> <<i - 1, i>>, clbits |-> <<>>]
            /\ \A j \in 1..nq :
                  ins[2 * nq - 1 + j] =
                      [name |-> "measure", qubits |-> <<j - 1>>, clbits |-> <<j - 1>>]
            /\ \A i \in 1..Len(ins) : \A j \in (i + 1)..Len(ins) :
                  /\ ~(ins[i].name = "cx" /\ ins[j].name = "h")
                  /\ ins[i].name = "measure" => ins[j].name = "measure"

C5_Witness ==
    /\ ~stopped
    /\ num_qubits = 4
    /\ Cardinality({i \in 1..Len(qc.data) : qc.data[i].name = "cx"}) = 3

\* C6: whenever a codeword is displayed, the evaluation points are
\* 1, 2, ..., len(message)+2 in this order, the codeword is as long as the
\* list of evaluation points, and there is at least one coefficient.
C6_EvalPointsCount ==
    poly_status = "ok" =>
        /\ Len(message) >= 1
        /\ Len(eval_points) = Len(message) + 2
        /\ \A i \in 1..(Len(message) + 2) : eval_points[i] = i
        /\ Len(codeword) = Len(eval_points)

C6_Witness ==
    /\ poly_status = "ok"
    /\ Len(message) = 1
    /\ eval_points = <<1, 2, 3>>

\* C7: the text "3,5,2" gives the coefficients [3,5,2], the evaluation points
\* [1,2,3,4,5] and the codeword [10,21,36,55,78].
C7_DefaultMessage ==
    (msg = <<"3", ",", "5", ",", "2">> /\ d_out # <<>>) =>
        /\ poly_status = "ok"
        /\ message = <<3, 5, 2>>
        /\ eval_points = <<1, 2, 3, 4, 5>>
        /\ codeword = <<10, 21, 36, 55, 78>>

C7_Witness ==
    /\ msg = <<"3", ",", "5", ",", "2">>
    /\ codeword = <<10, 21, 36, 55, 78>>

\* the count of a bitstring, 0 when it was never observed
CountOf(key) == IF key \in DOMAIN counts THEN counts[key] ELSE 0

\* C8 as stated: with 2 qubits the correlated bitstrings 00 and 11 are
\* observed more often than the anti-correlated 01 and 10.
C8_Original ==
    (~stopped /\ num_qubits = 2) =>
        CountOf(<<"0", "0">>) + CountOf(<<"1", "1">>)
            > CountOf(<<"0", "1">>) + CountOf(<<"1", "0">>)

\* C8 amended: with 2 qubits the circuit gives the four bitstrings 00, 01, 10
\* and 11 the same probability, so the correlated and the anti-correlated
\* bitstrings are equally likely.
C8_UniformOutcomes ==
    (~stopped /\ num_qubits = 2) =>
        LET w == OutcomeWeights(qc)
        IN  /\ DOMAIN w = [1..2 -> {"0", "1"}]
            /\ \A a \in DOMAIN w : \A b \in DOMAIN w : w[a] = w[b]
            /\ \A key \in DOMAIN w : key \in DOMAIN counts

C8_Witness ==
    /\ ~stopped
    /\ num_qubits = 2
    /\ CountOf(<<"0", "1">>) > 0
    /\ CountOf(<<"1", "0">>) > 0

PolySame ==
    /\ poly_status' = poly_status /\ message' = message
    /\ poly_str' = poly_str /\ eval_points' = eval_points
    /\ codeword' = codeword

\* C9 as stated, for runs that complete: a change of n or k leaves the outputs
\* of the polynomial and quantum sections as they were, a change of the text
\* those of the distance and quantum sections, a change of the qubit count
\* those of the distance and polynomial sections.
C9_Original ==
    [][(~stopped /\ ~stopped') =>
          /\ (n' # n \/ k' # k) => (PolySame /\ qc' = qc /\ counts' = counts)
          /\ msg' # msg => (d_out' = d_out /\ qc' = qc /\ counts' = counts)
          /\ num_qubits' # num_qubits => (d_out' = d_out /\ PolySame)]_vars

\* C9 amended: every input change runs the whole script again.  A run that
\* stops at the k input displays no section output at all.  Between two runs
\* that complete, the distance is unchanged when n and k are, the polynomial
\* section's output is unchanged when the text is, and the circuit is
\* unchanged when the qubit count is; the counts are drawn again and only
\* their total is unchanged.
C9_WholeScriptReruns ==
    [][/\ stopped' =>
            /\ d_out' = <<>> /\ poly_status' = "none" /\ codeword' = <<>>
            /\ qc' = NoCircuit /\ counts' = <<>>
       /\ (~stopped /\ ~stopped') =>
            /\ (n' = n /\ k' = k) => d_out' = d_out
            /\ msg' = msg => PolySame
            /\ num_qubits' = num_qubits =>
                  /\ qc' = qc
                  /\ SumOver(counts', DOMAIN counts')
                        = SumOver(counts, DOMAIN counts)]_vars

C9_Witness ==
    /\ ~stopped
    /\ msg # DefaultMsg
    /\ n # DefaultN
    /\ num_qubits # DefaultQubits
    /\ \E a \in DOMAIN counts : \E b \in DOMAIN counts : counts[a] # counts[b]

\* C10: when the polynomial section shows the error, the same run has displayed
\* d = n - k + 1, has built the circuit for num_qubits qubits, has run it and
\* shows its counts; the polynomial section shows nothing but the error.
C10_ParseFailureContained ==
    poly_status = "error" =>
        /\ d_out = <<n - k + 1>>
        /\ ~stopped
        /\ qc.num_qubits = num_qubits
        /\ Len(qc.data) = 3 * num_qubits - 1
        /\ shots_run = 1024
        /\ DOMAIN counts # {}
        /\ SumOver(counts, DOMAIN counts) = shots_run
        /\ message = <<>> /\ poly_str = <<>>
        /\ eval_points = <<>> /\ codeword = <<>>

C10_Witness ==
    /\ poly_status = "error"
    /\ msg = <<"a", ",", "b", ",", "c">>
    /\ DOMAIN counts # {}
    /\ d_out # <<>>

====
